---- MODULE Spec2Model ----
(***************************************************************************)
(* Model of dunv/concurrentList: a mutex + condition-variable protected    *)
(* list with a blocking, context-aware GetNext.                            *)
(*                                                                         *)
(* Two revisions of GetNext are modelled, selected by the variable impl:   *)
(*   "broadcast" - v2: context.AfterFunc(ctx, cond.Broadcast)              *)
(*   "signal"    - a watcher goroutine per call that waits for the         *)
(*                 (derived) context and then calls notEmpty.Signal()      *)
(* The condition variable is Go's sync.Cond: Wait() enters the notify list *)
(* while the lock is still held and then releases the lock; Signal() wakes *)
(* the oldest entry of the notify list, Broadcast() wakes all of them;     *)
(* neither needs the lock.                                                 *)
(*                                                                         *)
(* A third, older revision keeps a list of subscriber channels instead of a *)
(* condition variable (impl = "subscriber", SubSpec).                      *)
(*                                                                         *)
(* Push, DeleteWithFilter and the TTL sweep are also modelled statement by *)
(* statement inside their critical section (ListSpec), together with Peek, *)
(* Length, GetWithFilter and the constructor that reloads a persisted list.*)
(* File errors (IoSpec), file names that collide (KeySpec) and the v1       *)
(* constructor, which does not sort (V1Spec), have specifications of their  *)
(* own.                                                                    *)
(***************************************************************************)
EXTENDS Integers, Sequences, FiniteSets, TLC

\* ------------------------------------------------------------------ bounds
NumConsumers == 2
MaxItems == 3
MaxPush == 3
MaxOrphans == 1
MaxTime == 2
MaxFailures == 2
\* opts.ttlDuration, in sweep intervals
TTL == 1

Consumers == 1..NumConsumers
Items == 1..MaxItems

\* results of a call: an item (1..MaxItems) or one of these
NoResult == 0
CtxErr == -1
ErrEmptyList == -2

VARIABLES
    impl,           \* "broadcast", "signal" or "subscriber": which GetNext the list has
    lessFunc,       \* opts.lessFunc # nil
    persistChanges, \* opts.persistChanges
    data,           \* l.data
    files,          \* names of the files in opts.persistRootPath
    lock,           \* 0 = free, c = held by consumer c inside GetNext
    notify,         \* notify list of the sync.Cond, oldest first
    pc,             \* position of each consumer
    ctxDone,        \* ctx.Err() # nil for the context of the consumer's call
    startDone,      \* the context was already done when the call was made
    watcher,        \* "none", "armed" (waits for ctx), "started" (will notify)
    orphans,        \* started watchers whose GetNext call has returned
    res,            \* result of the consumer's last Shift/GetNext
    pushedSeq,      \* history: items in the order they were appended
    removed,        \* history: items in the order shift() took them
    waitOrder,      \* history: running calls in the order of their first Wait
    runningWaitRoutines,    \* debug counter of the Signal-based list
    runningSignalRoutines,  \* debug counter of the Signal-based list
    ttlEnabled,     \* opts.ttlEnabled
    now,            \* the clock, in sweep intervals
    sweepDue,       \* the TTL goroutine's Sleep is over
    op,             \* the critical section another goroutine is inside of
    ret,            \* result of the last Peek/Length/GetWithFilter/DeleteWithFilter
    deleted,        \* history: items DeleteWithFilter has removed
    persistErrorHandler,    \* opts.persistErrorHandler # nil
    ioFailed,       \* history: file operations that returned an error
    handled         \* history: calls of the error handler

\* the error handler of the persistence option and what it has seen
ioVars == <<persistErrorHandler, ioFailed, handled>>
\* the variables of the stepwise operations, the TTL sweep, the file errors
\* and their histories
listExt == <<ttlEnabled, now, sweepDue, op, ret, deleted, ioVars>>
counters == <<runningWaitRoutines, runningSignalRoutines>>

vars == <<impl, lessFunc, persistChanges, data, files, lock, notify, pc,
          ctxDone, startDone, watcher, orphans, res, pushedSeq, removed,
          waitOrder, runningWaitRoutines, runningSignalRoutines,
          ttlEnabled, now, sweepDue, op, ret, deleted,
          persistErrorHandler, ioFailed, handled>>

Range(s) == {s[i] : i \in 1..Len(s)}

\* ------------------------------------------------------------- comparator
\* the priority field of the test items prio500, prio200, prio100, prio300;
\* further items repeat priorities, so that the comparator has ties
Priority(i) ==
    CASE i = 1 -> 500
      [] i = 2 -> 200
      [] i = 3 -> 100
      [] i = 4 -> 300
      [] OTHER -> 100 * ((i % 3) + 1)

\* lessFunc of the sorting tests: higher priority first
less(a, b) == Priority(a) > Priority(b)

IsSorted(s) == \A i, j \in 1..Len(s) : i < j => ~less(s[j], s[i])

Permutations_(s) ==
    {t \in [1..Len(s) -> Range(s)] :
        \A x \in Range(s) :
            Cardinality({i \in 1..Len(s) : t[i] = x}) =
            Cardinality({i \in 1..Len(s) : s[i] = x})}

\* mutant: the slice is left as it was appended
sortSlice_Unsorted(s) == {s}

\* mutant: the sorted slice is cut one element short
sortSlice_DropsLast(s) ==
    {SubSeq(t, 1, Len(t) - 1) : t \in {u \in Permutations_(s) : IsSorted(u)}}

\* sort.Slice is not stable: any sorted permutation may be the result
sortSlice(s) == {t \in Permutations_(s) : IsSorted(t)}

\* l.data after append(l.data, items...) and the optional sort
pushData(d, items) ==
    IF lessFunc THEN sortSlice(d \o items) ELSE {d \o items}

\* ------------------------------------------------------ condition variable
\* mutant: the signal wakes nobody
Signal_Nobody(n) == [rest |-> n, woken |-> {}]

\* mutant: the signal wakes every waiter
Signal_All(n) == [rest |-> <<>>, woken |-> Range(n)]

\* cond.Signal(): wakes the oldest waiter, if any
Signal(n) ==
    IF n = <<>> THEN [rest |-> n, woken |-> {}]
    ELSE [rest |-> Tail(n), woken |-> {Head(n)}]

\* cond.Broadcast(): wakes every waiter
Broadcast(n) == [rest |-> <<>>, woken |-> Range(n)]

\* what a watcher does when its context is done
watcherNotify(n) == IF impl = "broadcast" THEN Broadcast(n) ELSE Signal(n)

Wake(w) == [c \in Consumers |-> IF c \in w THEN "woken" ELSE pc[c]]

\* ------------------------------------------------------------------ shift
\* mutant: the first element is returned but stays in the list
shift_KeepsItem(d, f) == [item |-> Head(d), data |-> d, files |-> f]

\* mutant: the newest element is taken
shift_TakesLast(d, f) ==
    [item |-> d[Len(d)],
     data |-> SubSeq(d, 1, Len(d) - 1),
     files |-> IF persistChanges THEN f \ {d[Len(d)]} ELSE f]

\* mutant: the file of the element stays
shift_KeepsFile(d, f) == [item |-> Head(d), data |-> Tail(d), files |-> f]

\* mutant: the element behind the first one goes, too
shift_DropsNext(d, f) ==
    [item |-> Head(d),
     data |-> IF Len(d) > 1 THEN Tail(Tail(d)) ELSE Tail(d),
     files |-> IF persistChanges THEN f \ {Head(d)} ELSE f]

\* internal shift(): first element, remaining data, remaining files
shift(d, f) ==
    [item |-> Head(d),
     data |-> Tail(d),
     files |-> IF persistChanges THEN f \ {Head(d)} ELSE f]

\* -------------------------------------------------------------------- Init
\* no goroutine other than a GetNext caller is inside a critical section
NoOp == [kind |-> "none"]
\* no result yet
NoRet == [kind |-> "none"]

\* the state after NewConcurrentList on an empty directory; the goroutine of
\* the TTL option begins with a sweep
StartWith(impls, ttls, handlers) ==
    /\ impl \in impls
    /\ lessFunc \in BOOLEAN
    /\ persistChanges \in BOOLEAN
    /\ data = <<>>
    /\ files = {}
    /\ lock = 0
    /\ notify = <<>>
    /\ pc = [c \in Consumers |-> "idle"]
    /\ ctxDone = [c \in Consumers |-> FALSE]
    /\ startDone = [c \in Consumers |-> FALSE]
    /\ watcher = [c \in Consumers |-> "none"]
    /\ orphans = 0
    /\ res = [c \in Consumers |-> NoResult]
    /\ pushedSeq = <<>>
    /\ removed = <<>>
    /\ waitOrder = <<>>
    /\ runningWaitRoutines = 0
    /\ runningSignalRoutines = 0
    /\ ttlEnabled \in ttls
    /\ now = 0
    /\ sweepDue = ttlEnabled
    /\ op = NoOp
    /\ ret = NoRet
    /\ deleted = {}
    /\ persistErrorHandler \in handlers
    /\ ioFailed = 0
    /\ handled = 0

\* no error handler: without file errors it is never looked at
Start(impls, ttls) == StartWith(impls, ttls, {FALSE})

\* both GetNext revisions, no TTL
Init == Start({"broadcast", "signal"}, {FALSE})

\* ------------------------------------------------------------------- Push
\* the argument lists of one Push call: distinct items not pushed before;
\* without a comparator the list never looks into an item, so the items are
\* numbered in the order they are pushed
PushArgs ==
    {s \in UNION {[1..n -> Items \ Range(pushedSeq)] : n \in 1..MaxPush} :
        /\ \A i, j \in 1..Len(s) : i # j => s[i] # s[j]
        /\ ~lessFunc => \A i \in 1..Len(s) : s[i] = Len(pushedSeq) + i}

Push(items) ==
    /\ lock = 0
    /\ data' \in pushData(data, items)
    /\ files' = IF persistChanges THEN files \cup Range(items) ELSE files
    /\ notify' = Signal(notify).rest
    /\ pc' = Wake(Signal(notify).woken)
    /\ pushedSeq' = pushedSeq \o items
    /\ UNCHANGED <<impl, lessFunc, persistChanges, lock, ctxDone, startDone,
                   watcher, orphans, res, removed>>
    /\ UNCHANGED <<waitOrder, counters, listExt>>

\* ------------------------------------------------------------------ Shift
Shift(c) ==
    /\ pc[c] = "idle"
    /\ lock = 0
    /\ IF Len(data) < 1
       THEN /\ res' = [res EXCEPT ![c] = ErrEmptyList]
            /\ UNCHANGED <<data, files, removed>>
       ELSE /\ res' = [res EXCEPT ![c] = shift(data, files).item]
            /\ data' = shift(data, files).data
            /\ files' = shift(data, files).files
            /\ removed' = Append(removed, shift(data, files).item)
    /\ UNCHANGED <<impl, lessFunc, persistChanges, lock, notify, pc, ctxDone,
                   startDone, watcher, orphans, pushedSeq>>
    /\ UNCHANGED <<waitOrder, counters, listExt>>

\* ---------------------------------------------------------------- GetNext
InCall(c) == pc[c] # "idle"

\* the caller invokes GetNext(ctx); done: ctx is already done at that moment
GetNextCall(c, done) ==
    /\ pc[c] = "idle"
    /\ orphans < MaxOrphans
    /\ pc' = [pc EXCEPT ![c] = "locking"]
    /\ ctxDone' = [ctxDone EXCEPT ![c] = done]
    /\ startDone' = [startDone EXCEPT ![c] = done]
    /\ res' = [res EXCEPT ![c] = NoResult]
    /\ UNCHANGED <<impl, lessFunc, persistChanges, data, files, lock, notify,
                   watcher, orphans, pushedSeq, removed>>
    /\ UNCHANGED <<waitOrder, counters, listExt>>

\* the Signal-based list counts the calls between Lock() and the return
waitRoutines(d) ==
    IF impl = "signal" THEN runningWaitRoutines + d ELSE runningWaitRoutines

\* Lock(), then the watcher is set up: context.AfterFunc(ctx, Broadcast) or
\* the goroutine that waits for useCtx.Done(); a done context starts it at once
GetNextLock(c) ==
    /\ pc[c] = "locking"
    /\ lock = 0
    /\ lock' = c
    /\ pc' = [pc EXCEPT ![c] = "check"]
    /\ watcher' = [watcher EXCEPT ![c] = IF ctxDone[c] THEN "started" ELSE "armed"]
    /\ runningWaitRoutines' = waitRoutines(1)
    /\ UNCHANGED <<impl, lessFunc, persistChanges, data, files, notify, ctxDone,
                   startDone, orphans, res, pushedSeq, removed>>
    /\ UNCHANGED <<waitOrder, runningSignalRoutines, listExt>>

\* the deferred calls of a return: stop() unregisters an AfterFunc that has not
\* started, cancel() of the derived context releases the signal goroutine;
\* a started watcher goes on after the call
watcherAtReturn(c) ==
    IF impl = "broadcast"
    THEN IF watcher[c] = "started" THEN 1 ELSE 0
    ELSE IF watcher[c] \in {"armed", "started"} THEN 1 ELSE 0

\* mutant: the wait counter is not decremented on the error path
Return_KeepsCount(c, r) ==
    /\ pc' = [pc EXCEPT ![c] = "idle"]
    /\ res' = [res EXCEPT ![c] = r]
    /\ lock' = 0
    /\ orphans' = orphans + watcherAtReturn(c)
    /\ watcher' = [watcher EXCEPT ![c] = "none"]
    /\ runningWaitRoutines' = IF r = ErrEmptyList THEN runningWaitRoutines
                              ELSE waitRoutines(0 - 1)
    /\ waitOrder' = SelectSeq(waitOrder, LAMBDA x : x # c)

Return(c, r) ==
    /\ pc' = [pc EXCEPT ![c] = "idle"]
    /\ res' = [res EXCEPT ![c] = r]
    /\ lock' = 0
    /\ orphans' = orphans + watcherAtReturn(c)
    /\ watcher' = [watcher EXCEPT ![c] = "none"]
    /\ runningWaitRoutines' = waitRoutines(0 - 1)
    /\ waitOrder' = SelectSeq(waitOrder, LAMBDA x : x # c)

ReturnItem(c) ==
    /\ Return(c, shift(data, files).item)
    /\ data' = shift(data, files).data
    /\ files' = shift(data, files).files
    /\ removed' = Append(removed, shift(data, files).item)

\* mutant: the front item is shifted before the error is returned
ReturnError_Shifts(c, e) ==
    /\ Return(c, e)
    /\ IF data = <<>> THEN UNCHANGED <<data, files, removed>>
       ELSE /\ data' = shift(data, files).data
            /\ files' = shift(data, files).files
            /\ removed' = Append(removed, shift(data, files).item)

ReturnError(c, e) ==
    /\ Return(c, e)
    /\ UNCHANGED <<data, files, removed>>

\* mutant: no loop around Wait, an empty list ends the call with ErrEmptyList
GetNextCheckBroadcast_NoWait(c) ==
    IF ctxDone[c] THEN ReturnError(c, CtxErr)
    ELSE IF Len(data) > 0 THEN ReturnItem(c)
    ELSE ReturnError(c, ErrEmptyList)

\* v2 loop head: ctx.Err() first, then len(l.data)
GetNextCheckBroadcast(c) ==
    IF ctxDone[c] THEN ReturnError(c, CtxErr)
    ELSE IF Len(data) > 0 THEN ReturnItem(c)
    ELSE /\ pc' = [pc EXCEPT ![c] = "wait"]
         /\ UNCHANGED <<data, files, removed, lock, orphans, watcher, res,
                        waitOrder, runningWaitRoutines>>

\* mutant: the loop only looks at the context while the list is empty
GetNextCheckSignal_DataFirst(c) ==
    IF Len(data) = 0
    THEN IF ctxDone[c] THEN ReturnError(c, ErrEmptyList)
         ELSE /\ pc' = [pc EXCEPT ![c] = "wait"]
              /\ UNCHANGED <<data, files, removed, lock, orphans, watcher, res,
                             waitOrder, runningWaitRoutines>>
    ELSE ReturnItem(c)

\* Signal-based loop head: for len(l.data) == 0 || ctx.Err() != nil
GetNextCheckSignal(c) ==
    IF Len(data) = 0 \/ ctxDone[c]
    THEN IF ctxDone[c] THEN ReturnError(c, ErrEmptyList)
         ELSE /\ pc' = [pc EXCEPT ![c] = "wait"]
              /\ UNCHANGED <<data, files, removed, lock, orphans, watcher, res,
                             waitOrder, runningWaitRoutines>>
    ELSE ReturnItem(c)

GetNextCheck(c) ==
    /\ pc[c] = "check"
    /\ IF impl = "broadcast" THEN GetNextCheckBroadcast(c)
       ELSE GetNextCheckSignal(c)
    /\ UNCHANGED <<impl, lessFunc, persistChanges, notify, ctxDone, startDone,
                   pushedSeq>>
    /\ UNCHANGED <<runningSignalRoutines, listExt>>

\* mutant: the caller goes to sleep with the lock
GetNextWait_KeepsLock(c) ==
    /\ pc[c] = "wait"
    /\ notify' = Append(notify, c)
    /\ pc' = [pc EXCEPT ![c] = "suspended"]
    /\ waitOrder' = IF c \in Range(waitOrder) THEN waitOrder
                    ELSE Append(waitOrder, c)
    /\ UNCHANGED <<impl, lessFunc, persistChanges, data, files, ctxDone, lock,
                   startDone, watcher, orphans, res, pushedSeq, removed>>
    /\ UNCHANGED <<counters, listExt>>

\* cond.Wait(), first half: enter the notify list, release the lock
GetNextWait(c) ==
    /\ pc[c] = "wait"
    /\ notify' = Append(notify, c)
    /\ lock' = 0
    /\ pc' = [pc EXCEPT ![c] = "suspended"]
    /\ waitOrder' = IF c \in Range(waitOrder) THEN waitOrder
                    ELSE Append(waitOrder, c)
    /\ UNCHANGED <<impl, lessFunc, persistChanges, data, files, ctxDone,
                   startDone, watcher, orphans, res, pushedSeq, removed>>
    /\ UNCHANGED <<counters, listExt>>

\* cond.Wait(), second half: a woken caller takes the lock again
GetNextWake(c) ==
    /\ pc[c] = "woken"
    /\ lock = 0
    /\ lock' = c
    /\ pc' = [pc EXCEPT ![c] = "check"]
    /\ UNCHANGED <<impl, lessFunc, persistChanges, data, files, notify, ctxDone,
                   startDone, watcher, orphans, res, pushedSeq, removed>>
    /\ UNCHANGED <<waitOrder, counters, listExt>>

\* ------------------------------------------------- context and its watcher
\* the context of a running call becomes done (cancel or deadline)
Cancel(c) ==
    /\ InCall(c)
    /\ ~ctxDone[c]
    /\ ctxDone' = [ctxDone EXCEPT ![c] = TRUE]
    /\ watcher' = [watcher EXCEPT ![c] = IF @ = "armed" THEN "started" ELSE @]
    /\ UNCHANGED <<impl, lessFunc, persistChanges, data, files, lock, notify, pc,
                   startDone, orphans, res, pushedSeq, removed>>
    /\ UNCHANGED <<waitOrder, counters, listExt>>

\* the goroutines of the Signal-based list that wait for a context
aliveSignalRoutines ==
    IF impl = "signal"
    THEN Cardinality({c \in Consumers : watcher[c] \in {"armed", "started"}}) + orphans
    ELSE 0

\* such a goroutine runs its first statement, which counts it; which of the
\* goroutines are counted does not matter, so only their number is kept
SignalRoutineStart ==
    /\ runningSignalRoutines < aliveSignalRoutines
    /\ runningSignalRoutines' = runningSignalRoutines + 1
    /\ UNCHANGED <<impl, lessFunc, persistChanges, data, files, lock, notify, pc,
                   ctxDone, startDone, watcher, orphans, res, pushedSeq, removed>>
    /\ UNCHANGED <<waitOrder, runningWaitRoutines, listExt>>

\* a goroutine that has counted itself can go on to Signal()
signalRoutineCounted == impl = "signal" => runningSignalRoutines > 0

\* the counter after the goroutine's last statement
signalRoutineEnd ==
    IF impl = "signal" THEN runningSignalRoutines - 1 ELSE runningSignalRoutines

\* the watcher of a running call notifies the condition variable
WatcherRun(c) ==
    /\ watcher[c] = "started"
    /\ signalRoutineCounted
    /\ runningSignalRoutines' = signalRoutineEnd
    /\ watcher' = [watcher EXCEPT ![c] = "none"]
    /\ notify' = watcherNotify(notify).rest
    /\ pc' = Wake(watcherNotify(notify).woken)
    /\ UNCHANGED <<impl, lessFunc, persistChanges, data, files, lock, ctxDone,
                   startDone, orphans, res, pushedSeq, removed>>
    /\ UNCHANGED <<waitOrder, runningWaitRoutines, listExt>>

\* the watcher of a call that has returned notifies the condition variable
OrphanRun ==
    /\ orphans > 0
    /\ signalRoutineCounted
    /\ runningSignalRoutines' = signalRoutineEnd
    /\ orphans' = orphans - 1
    /\ notify' = watcherNotify(notify).rest
    /\ pc' = Wake(watcherNotify(notify).woken)
    /\ UNCHANGED <<impl, lessFunc, persistChanges, data, files, lock, ctxDone,
                   startDone, watcher, res, pushedSeq, removed>>
    /\ UNCHANGED <<waitOrder, runningWaitRoutines, listExt>>

\* ------------------------------------------------------------------- Next
ConsumerStep(c) == GetNextLock(c) \/ GetNextCheck(c) \/ GetNextWait(c) \/ GetNextWake(c)

PushAny == \E items \in PushArgs : Push(items)

Next ==
    \/ PushAny
    \/ \E c \in Consumers : Shift(c)
    \/ \E c \in Consumers, done \in BOOLEAN : GetNextCall(c, done)
    \/ \E c \in Consumers : GetNextLock(c)
    \/ \E c \in Consumers : GetNextCheck(c)
    \/ \E c \in Consumers : GetNextWait(c)
    \/ \E c \in Consumers : GetNextWake(c)
    \/ \E c \in Consumers : Cancel(c)
    \/ \E c \in Consumers : WatcherRun(c)
    \/ OrphanRun
    \/ SignalRoutineStart

Spec == Init /\ [][Next]_vars

TypeOK ==
    /\ impl \in {"broadcast", "signal"}
    /\ lock \in {0} \cup Consumers \cup {NumConsumers + 1}
    /\ orphans \in 0..(MaxOrphans + NumConsumers - 1)
    /\ Range(notify) = {c \in Consumers : pc[c] = "suspended"}

\* ---------------------------------------------------------------- fairness
\* goroutines that can run do run; sync.Mutex hands the lock to a goroutine
\* that keeps asking for it (starvation mode), hence SF for the two Lock()s.
\* Push, Shift, Cancel and new GetNext calls are up to the callers.
Fairness ==
    /\ \A c \in Consumers : SF_vars(GetNextLock(c))
    /\ \A c \in Consumers : WF_vars(GetNextCheck(c))
    /\ \A c \in Consumers : WF_vars(GetNextWait(c))
    /\ \A c \in Consumers : SF_vars(GetNextWake(c))
    /\ \A c \in Consumers : WF_vars(WatcherRun(c))
    /\ WF_vars(OrphanRun)
    /\ WF_vars(SignalRoutineStart)

\* the wait protocol does not look at the order of the items or at the files
LiveInit == Init /\ ~lessFunc /\ ~persistChanges

FairSpec == LiveInit /\ [][Next]_vars /\ Fairness

\* consumers that loop on GetNext: an idle consumer calls again
LoopSpec == FairSpec /\ \A c \in Consumers : WF_vars(\E done \in BOOLEAN : GetNextCall(c, done))

\* ------------------------------------------- operations statement by statement
\* the value of the lock while a goroutine that is no GetNext caller holds it
OpHolder == NumConsumers + 1

optsVars == <<impl, lessFunc, persistChanges, ttlEnabled>>
callVars == <<ctxDone, startDone, watcher, orphans, res, waitOrder,
              runningWaitRoutines, runningSignalRoutines, ioVars>>

\* a predicate over items is given by the set of the items it holds for
Predicates == SUBSET Items
\* mutant: the loop stops at the first match
filter_First(d, pred) ==
    IF SelectSeq(d, LAMBDA x : x \in pred) = <<>> THEN <<>>
    ELSE <<Head(SelectSeq(d, LAMBDA x : x \in pred))>>
filter(d, pred) == SelectSeq(d, LAMBDA x : x \in pred)
\* mutant: every item is kept
filterNot_All(d, pred) == d
filterNot(d, pred) == SelectSeq(d, LAMBDA x : x \notin pred)

\* the timestamp ttlFunc reads from an item
CreatedAt(i) == i - 1
\* time.Since(ttlAttribute) > ttlDuration
Expired(i) == now - CreatedAt(i) > TTL

\* the callers push items that have not expired yet
FreshArgs == {s \in PushArgs : ttlEnabled => \A i \in 1..Len(s) : ~Expired(s[i])}

\* mutant: Push appends without taking the lock
PushAppend_NoLock(items) ==
    /\ op = NoOp
    /\ data' = data \o items
    /\ op' = [kind |-> "Push",
              stage |-> IF lessFunc THEN "sort" ELSE "persist",
              items |-> items,
              todo |-> IF persistChanges THEN items ELSE <<>>,
              before |-> data,
              filesBefore |-> files]
    /\ UNCHANGED <<optsVars, callVars, files, lock, notify, pc, pushedSeq,
                   removed, now, sweepDue, ret, deleted>>

\* Push, lines 133-136: Lock(), append
PushAppend(items) ==
    /\ op = NoOp
    /\ lock = 0
    /\ lock' = OpHolder
    /\ data' = data \o items
    /\ op' = [kind |-> "Push",
              stage |-> IF lessFunc THEN "sort" ELSE "persist",
              items |-> items,
              todo |-> IF persistChanges THEN items ELSE <<>>,
              before |-> data,
              filesBefore |-> files]
    /\ UNCHANGED <<optsVars, callVars, files, notify, pc, pushedSeq, removed,
                   now, sweepDue, ret, deleted>>

PushCall == \E items \in FreshArgs : PushAppend(items)

\* mutant: the appended items are left where they are
PushSort_Skips ==
    /\ op.kind = "Push"
    /\ op.stage = "sort"
    /\ op' = [op EXCEPT !.stage = "persist"]
    /\ UNCHANGED <<optsVars, callVars, data, files, lock, notify, pc, pushedSeq,
                   removed, now, sweepDue, ret, deleted>>

\* Push, lines 137-141: sort.Slice over the whole slice
PushSort ==
    /\ op.kind = "Push"
    /\ op.stage = "sort"
    /\ data' \in sortSlice(data)
    /\ op' = [op EXCEPT !.stage = "persist"]
    /\ UNCHANGED <<optsVars, callVars, files, lock, notify, pc, pushedSeq,
                   removed, now, sweepDue, ret, deleted>>

\* Push, lines 144-151: one file per pushed item
PushPersist ==
    /\ op.kind = "Push"
    /\ op.stage = "persist"
    /\ op.todo # <<>>
    /\ files' = files \cup {Head(op.todo)}
    /\ op' = [op EXCEPT !.todo = Tail(@)]
    /\ UNCHANGED <<optsVars, callVars, data, lock, notify, pc, pushedSeq,
                   removed, now, sweepDue, ret, deleted>>

\* mutant: Push signals and unlocks while files are still to be written
PushSignal_Early ==
    /\ op.kind = "Push"
    /\ op.stage = "persist"
    /\ notify' = Signal(notify).rest
    /\ pc' = Wake(Signal(notify).woken)
    /\ pushedSeq' = pushedSeq \o op.items
    /\ lock' = 0
    /\ op' = NoOp
    /\ UNCHANGED <<optsVars, callVars, data, files, removed, now, sweepDue, ret,
                   deleted>>

\* Push, line 153 and the deferred Unlock()
PushSignal ==
    /\ op.kind = "Push"
    /\ op.stage = "persist"
    /\ op.todo = <<>>
    /\ notify' = Signal(notify).rest
    /\ pc' = Wake(Signal(notify).woken)
    /\ pushedSeq' = pushedSeq \o op.items
    /\ lock' = 0
    /\ op' = NoOp
    /\ UNCHANGED <<optsVars, callVars, data, files, removed, now, sweepDue, ret,
                   deleted>>

\* DeleteWithFilter, lines 234-245: Lock(), the loop that splits the items
DeleteLock(pred, sweep) ==
    /\ op = NoOp
    /\ lock = 0
    /\ lock' = OpHolder
    /\ op' = [kind |-> "DeleteWithFilter",
              sweep |-> sweep,
              filtered |-> filter(data, pred),
              nonFiltered |-> filterNot(data, pred),
              todo |-> IF persistChanges THEN filter(data, pred) ELSE <<>>,
              filesBefore |-> files]
    /\ UNCHANGED <<optsVars, callVars, data, files, notify, pc, pushedSeq,
                   removed, now, sweepDue, ret, deleted>>

DeleteWithFilterCall == \E pred \in Predicates : DeleteLock(pred, FALSE)

\* mutant: the sweep leaves the items that have just expired
Sweep_Late ==
    /\ ttlEnabled
    /\ sweepDue
    /\ DeleteLock({x \in Items : now - CreatedAt(x) > TTL + 1}, TRUE)

\* the TTL goroutine, lines 116-121: DeleteWithFilter of the expired items
Sweep ==
    /\ ttlEnabled
    /\ sweepDue
    /\ DeleteLock({x \in Items : Expired(x)}, TRUE)

\* DeleteWithFilter, lines 248-255: the file of each filtered item is removed
DeleteFile ==
    /\ op.kind = "DeleteWithFilter"
    /\ op.todo # <<>>
    /\ files' = files \ {Head(op.todo)}
    /\ op' = [op EXCEPT !.todo = Tail(@)]
    /\ UNCHANGED <<optsVars, callVars, data, lock, notify, pc, pushedSeq,
                   removed, now, sweepDue, ret, deleted>>

\* mutant: the filtered items are returned but stay in the list
DeleteUnlock_KeepsData ==
    /\ op.kind = "DeleteWithFilter"
    /\ op.todo = <<>>
    /\ deleted' = deleted \cup Range(op.filtered)
    /\ ret' = IF op.sweep THEN ret
              ELSE [kind |-> "DeleteWithFilter", items |-> op.filtered]
    /\ sweepDue' = IF op.sweep THEN FALSE ELSE sweepDue
    /\ lock' = 0
    /\ op' = NoOp
    /\ UNCHANGED <<optsVars, callVars, data, files, notify, pc, pushedSeq,
                   removed, now>>

\* DeleteWithFilter, lines 258-261 and the deferred Unlock(); the TTL goroutine
\* drops the result and goes to sleep
DeleteUnlock ==
    /\ op.kind = "DeleteWithFilter"
    /\ op.todo = <<>>
    /\ data' = op.nonFiltered
    /\ deleted' = deleted \cup Range(op.filtered)
    /\ ret' = IF op.sweep THEN ret
              ELSE [kind |-> "DeleteWithFilter", items |-> op.filtered]
    /\ sweepDue' = IF op.sweep THEN FALSE ELSE sweepDue
    /\ lock' = 0
    /\ op' = NoOp
    /\ UNCHANGED <<optsVars, callVars, files, notify, pc, pushedSeq, removed, now>>

\* mutant: the TTL goroutine sweeps once and ends
Tick_NoLoop ==
    /\ ttlEnabled
    /\ ~sweepDue
    /\ now < MaxTime
    /\ now' = now + 1
    /\ UNCHANGED <<optsVars, callVars, data, files, lock, notify, pc, pushedSeq,
                   removed, op, ret, deleted, sweepDue>>

\* time.Sleep(ttlCheckInverval) of the TTL goroutine is over; a sweep that is
\* due runs before the next interval has passed
Tick ==
    /\ ttlEnabled
    /\ ~sweepDue
    /\ now < MaxTime
    /\ now' = now + 1
    /\ sweepDue' = TRUE
    /\ UNCHANGED <<optsVars, callVars, data, files, lock, notify, pc, pushedSeq,
                   removed, op, ret, deleted>>

\* mutant: Peek returns the newest item
Peek_Last ==
    /\ op = NoOp
    /\ lock = 0
    /\ ret' = [kind |-> "Peek",
               item |-> IF Len(data) < 1 THEN ErrEmptyList ELSE data[Len(data)]]
    /\ UNCHANGED <<optsVars, callVars, data, files, lock, notify, pc, pushedSeq,
                   removed, now, sweepDue, op, deleted>>

\* mutant: Peek looks at the slice without taking the lock
Peek_NoLock ==
    /\ ret' = [kind |-> "Peek",
               item |-> IF Len(data) < 1 THEN ErrEmptyList ELSE data[1]]
    /\ UNCHANGED <<optsVars, callVars, data, files, lock, notify, pc, pushedSeq,
                   removed, now, sweepDue, op, deleted>>

Peek ==
    /\ op = NoOp
    /\ lock = 0
    /\ ret' = [kind |-> "Peek",
               item |-> IF Len(data) < 1 THEN ErrEmptyList ELSE data[1]]
    /\ UNCHANGED <<optsVars, callVars, data, files, lock, notify, pc, pushedSeq,
                   removed, now, sweepDue, op, deleted>>

Length ==
    /\ op = NoOp
    /\ lock = 0
    /\ ret' = [kind |-> "Length", n |-> Len(data)]
    /\ UNCHANGED <<optsVars, callVars, data, files, lock, notify, pc, pushedSeq,
                   removed, now, sweepDue, op, deleted>>

GetWithFilter(pred) ==
    /\ op = NoOp
    /\ lock = 0
    /\ ret' = [kind |-> "GetWithFilter", items |-> filter(data, pred)]
    /\ UNCHANGED <<optsVars, callVars, data, files, lock, notify, pc, pushedSeq,
                   removed, now, sweepDue, op, deleted>>

GetWithFilterCall == \E pred \in Predicates : GetWithFilter(pred)

\* persistFileNameFunc: the file names do not follow the order of the pushes
\* or of the comparator
Key(i) ==
    CASE i = 1 -> 2
      [] i = 2 -> 3
      [] i = 3 -> 1
      [] OTHER -> i

\* persistenceLoad: os.ReadDir lists the files sorted by name
persistenceLoad(f) ==
    CHOOSE s \in [1..Cardinality(f) -> f] :
        /\ Range(s) = f
        /\ \A i, j \in 1..Cardinality(f) : i < j => Key(s[i]) < Key(s[j])

\* mutant: the loaded items are served in the order of the directory
newData_NoSort(f) == {persistenceLoad(f)}

\* l.data at the end of the v2 constructor
newData(f) ==
    IF lessFunc THEN sortSlice(persistenceLoad(f)) ELSE {persistenceLoad(f)}

\* the process starts again and constructs the list on the same directory
NewConcurrentList ==
    /\ persistChanges
    /\ op = NoOp
    /\ lock = 0
    /\ orphans = 0
    /\ \A c \in Consumers : pc[c] = "idle"
    /\ data' \in newData(files)
    /\ sweepDue' = ttlEnabled
    /\ ret' = [kind |-> "NewConcurrentList"]
    /\ UNCHANGED <<optsVars, callVars, files, lock, notify, pc, pushedSeq,
                   removed, now, op, deleted>>

\* the goroutine that calls Shift and GetNext next to the other operations
\* (several such callers next to each other are the business of Next)
ListCallers == {1}

ListNext ==
    \/ PushCall
    \/ PushSort
    \/ PushPersist
    \/ PushSignal
    \/ DeleteWithFilterCall
    \/ Sweep
    \/ DeleteFile
    \/ DeleteUnlock
    \/ Tick
    \/ Peek
    \/ Length
    \/ GetWithFilterCall
    \/ NewConcurrentList
    \/ \E c \in ListCallers : Shift(c)
    \/ \E c \in ListCallers : GetNextCall(c, FALSE)
    \/ \E c \in ListCallers : GetNextLock(c)
    \/ \E c \in ListCallers : GetNextCheck(c)
    \/ \E c \in ListCallers : GetNextWait(c)
    \/ \E c \in ListCallers : GetNextWake(c)

\* the v2 list with all its options, callers with contexts that stay live
ListInit == Start({"broadcast"}, BOOLEAN)

ListSpec == ListInit /\ [][ListNext]_vars

\* a goroutine inside a critical section goes on: nothing in there blocks
ListFairness ==
    /\ WF_vars(PushSort)
    /\ WF_vars(PushPersist)
    /\ WF_vars(PushSignal)
    /\ WF_vars(DeleteFile)
    /\ WF_vars(DeleteUnlock)
    /\ \A c \in ListCallers : WF_vars(GetNextCheck(c))
    /\ \A c \in ListCallers : WF_vars(GetNextWait(c))

ListFairSpec == ListSpec /\ ListFairness

\* ------------------------------------------------------ file errors
\* the error handling after persistenceCreateFile and persistenceDeleteFile:
\* if err != nil && persistErrorHandler != nil { (*persistErrorHandler)(err) }
errorHandled == IF persistErrorHandler THEN handled + 1 ELSE handled

\* a file operation can fail for reasons of its own, MaxFailures times
MayFail == ioFailed < MaxFailures

\* mutant: an item whose file could not be written is taken out of the list
PushPersistFails_DropsItem ==
    /\ op.kind = "Push"
    /\ op.stage = "persist"
    /\ op.todo # <<>>
    /\ MayFail
    /\ data' = SelectSeq(data, LAMBDA x : x # Head(op.todo))
    /\ op' = [op EXCEPT !.todo = Tail(@)]
    /\ ioFailed' = ioFailed + 1
    /\ handled' = errorHandled
    /\ UNCHANGED <<optsVars, ctxDone, startDone, watcher, orphans, res,
                   waitOrder, counters, persistErrorHandler, files, lock,
                   notify, pc, pushedSeq, removed, now, sweepDue, ret, deleted>>

\* Push, lines 144-151, persistenceCreateFile returns an error: os.Create
\* fails and there is no file, or Write or Sync fails and there is one
PushPersistFails ==
    /\ op.kind = "Push"
    /\ op.stage = "persist"
    /\ op.todo # <<>>
    /\ MayFail
    /\ files' \in {files, files \cup {Head(op.todo)}}
    /\ op' = [op EXCEPT !.todo = Tail(@)]
    /\ ioFailed' = ioFailed + 1
    /\ handled' = errorHandled
    /\ UNCHANGED <<optsVars, ctxDone, startDone, watcher, orphans, res,
                   waitOrder, counters, persistErrorHandler, data, lock,
                   notify, pc, pushedSeq, removed, now, sweepDue, ret, deleted>>

\* os.Remove of a file that is there, without error
IoDeleteFile ==
    /\ op.kind = "DeleteWithFilter"
    /\ op.todo # <<>>
    /\ Head(op.todo) \in files
    /\ DeleteFile

\* DeleteWithFilter, lines 248-255, persistenceDeleteFile returns an error:
\* the file is not there, or os.Remove fails and the file stays
DeleteFileFails ==
    /\ op.kind = "DeleteWithFilter"
    /\ op.todo # <<>>
    /\ Head(op.todo) \notin files \/ MayFail
    /\ op' = [op EXCEPT !.todo = Tail(@)]
    /\ ioFailed' = ioFailed + 1
    /\ handled' = errorHandled
    /\ UNCHANGED <<optsVars, ctxDone, startDone, watcher, orphans, res,
                   waitOrder, counters, persistErrorHandler, data, files, lock,
                   notify, pc, pushedSeq, removed, now, sweepDue, ret, deleted>>

\* the file of the front item can be removed without error
FrontFileOk == IF data = <<>> \/ ~persistChanges THEN TRUE ELSE data[1] \in files
\* ... or not
FrontFileFails ==
    /\ data # <<>>
    /\ persistChanges
    /\ data[1] \notin files \/ MayFail

IoShift(c) == FrontFileOk /\ Shift(c)

\* Shift, with shift() lines 282-287 getting an error from
\* persistenceDeleteFile
ShiftFails(c) ==
    /\ pc[c] = "idle"
    /\ lock = 0
    /\ FrontFileFails
    /\ res' = [res EXCEPT ![c] = data[1]]
    /\ data' = Tail(data)
    /\ removed' = Append(removed, data[1])
    /\ ioFailed' = ioFailed + 1
    /\ handled' = errorHandled
    /\ UNCHANGED <<optsVars, ctxDone, startDone, watcher, orphans, waitOrder,
                   counters, persistErrorHandler, files, lock, notify, pc,
                   pushedSeq, now, sweepDue, op, ret, deleted>>

IoGetNextCheck(c) == FrontFileOk /\ GetNextCheck(c)

\* GetNext of v2 at return l.shift(), with the same error
GetNextCheckFails(c) ==
    /\ pc[c] = "check"
    /\ impl = "broadcast"
    /\ ~ctxDone[c]
    /\ FrontFileFails
    /\ Return(c, data[1])
    /\ data' = Tail(data)
    /\ removed' = Append(removed, data[1])
    /\ ioFailed' = ioFailed + 1
    /\ handled' = errorHandled
    /\ UNCHANGED <<optsVars, ctxDone, startDone, runningSignalRoutines,
                   persistErrorHandler, files, notify, pushedSeq, now, sweepDue,
                   op, ret, deleted>>

IoNext ==
    \/ PushCall
    \/ PushSort
    \/ PushPersist
    \/ PushPersistFails
    \/ PushSignal
    \/ DeleteWithFilterCall
    \/ IoDeleteFile
    \/ DeleteFileFails
    \/ DeleteUnlock
    \/ \E c \in ListCallers : IoShift(c)
    \/ \E c \in ListCallers : ShiftFails(c)
    \/ \E c \in ListCallers : GetNextCall(c, FALSE)
    \/ \E c \in ListCallers : GetNextLock(c)
    \/ \E c \in ListCallers : IoGetNextCheck(c)
    \/ \E c \in ListCallers : GetNextCheckFails(c)
    \/ \E c \in ListCallers : GetNextWait(c)
    \/ \E c \in ListCallers : GetNextWake(c)

\* the v2 list with persistence, with and without an error handler
IoInit == StartWith({"broadcast"}, {FALSE}, BOOLEAN) /\ persistChanges

IoSpec == IoInit /\ [][IoNext]_vars

\* ------------------------------------------------------ the v1 constructor
\* NewConcurrentList of src/ConcurrentList.go: persistenceLoad, and no sort
NewConcurrentListV1 ==
    /\ persistChanges
    /\ op = NoOp
    /\ lock = 0
    /\ orphans = 0
    /\ \A c \in Consumers : pc[c] = "idle"
    /\ data' = persistenceLoad(files)
    /\ ret' = [kind |-> "NewConcurrentList"]
    /\ UNCHANGED <<optsVars, callVars, files, lock, notify, pc, pushedSeq,
                   removed, now, sweepDue, op, deleted>>

\* Push of v1 takes one item
V1PushAny == \E items \in PushArgs : Len(items) = 1 /\ Push(items)

V1Next ==
    \/ V1PushAny
    \/ NewConcurrentListV1
    \/ Peek
    \/ \E c \in ListCallers : Shift(c)
    \/ \E c \in ListCallers : GetNextCall(c, FALSE)
    \/ \E c \in ListCallers : GetNextLock(c)
    \/ \E c \in ListCallers : GetNextCheck(c)
    \/ \E c \in ListCallers : GetNextWait(c)
    \/ \E c \in ListCallers : GetNextWake(c)
    \/ OrphanRun
    \/ SignalRoutineStart

\* the Signal-based list with persistence
V1Init == Start({"signal"}, {FALSE}) /\ persistChanges

V1Spec == V1Init /\ [][V1Next]_vars

\* ------------------------------------------------------ keys that collide
\* A caller's persistFileNameFunc that is not unique per item: items 1, 3, ...
\* get one file name, items 2, 4, ... another. In this part files is the set
\* of the items whose record is in a file of the directory, one per name.
persistFileNameFunc(i) == i % 2

\* some file of the directory has the name of the item
hasFile(f, item) ==
    \E x \in f : persistFileNameFunc(x) = persistFileNameFunc(item)

\* mutant: a file that exists is not opened again (O_EXCL)
persistenceCreateFile_Excl(f, item) ==
    IF hasFile(f, item) THEN f ELSE f \cup {item}

\* persistenceCreateFile: os.Create truncates a file that exists
persistenceCreateFile(f, item) ==
    {x \in f : persistFileNameFunc(x) # persistFileNameFunc(item)} \cup {item}

\* persistenceDeleteFile: os.Remove of the file with the item's name
persistenceDeleteFile(f, item) ==
    {x \in f : persistFileNameFunc(x) # persistFileNameFunc(item)}

\* the loop of Push over its arguments
RECURSIVE createFiles(_, _)
createFiles(f, items) ==
    IF items = <<>> THEN f
    ELSE createFiles(persistenceCreateFile(f, Head(items)), Tail(items))

\* the loop of DeleteWithFilter over the filtered items: the files that are
\* left and the number of os.Remove calls that found no file
RECURSIVE deleteFiles(_, _)
deleteFiles(f, items) ==
    IF items = <<>> THEN [files |-> f, failed |-> 0]
    ELSE LET rest == deleteFiles(persistenceDeleteFile(f, Head(items)), Tail(items))
         IN  [files |-> rest.files,
              failed |-> rest.failed + IF hasFile(f, Head(items)) THEN 0 ELSE 1]

\* the handler is called once per error
errorsHandled(n) == IF persistErrorHandler THEN handled + n ELSE handled

\* Push, lines 132-154
KeyPush(items) ==
    /\ lock = 0
    /\ data' \in pushData(data, items)
    /\ files' = createFiles(files, items)
    /\ notify' = Signal(notify).rest
    /\ pc' = Wake(Signal(notify).woken)
    /\ pushedSeq' = pushedSeq \o items
    /\ UNCHANGED <<optsVars, ctxDone, startDone, watcher, orphans, res,
                   waitOrder, counters, ioVars, lock, removed, now, sweepDue,
                   op, ret, deleted>>

KeyPushAny == \E items \in PushArgs : KeyPush(items)

\* Shift, lines 158-163, with shift(), lines 272-290
KeyShift(c) ==
    /\ pc[c] = "idle"
    /\ lock = 0
    /\ IF Len(data) < 1
       THEN /\ res' = [res EXCEPT ![c] = ErrEmptyList]
            /\ UNCHANGED <<data, files, removed, ioFailed, handled>>
       ELSE /\ res' = [res EXCEPT ![c] = data[1]]
            /\ data' = Tail(data)
            /\ removed' = Append(removed, data[1])
            /\ files' = persistenceDeleteFile(files, data[1])
            /\ IF hasFile(files, data[1])
               THEN UNCHANGED <<ioFailed, handled>>
               ELSE ioFailed' = ioFailed + 1 /\ handled' = errorsHandled(1)
    /\ UNCHANGED <<optsVars, ctxDone, startDone, watcher, orphans, waitOrder,
                   counters, persistErrorHandler, lock, notify, pc, pushedSeq,
                   now, sweepDue, op, ret, deleted>>

\* DeleteWithFilter, lines 233-262
KeyDeleteWithFilter(pred) ==
    /\ lock = 0
    /\ data' = filterNot(data, pred)
    /\ files' = deleteFiles(files, filter(data, pred)).files
    /\ ioFailed' = ioFailed + deleteFiles(files, filter(data, pred)).failed
    /\ handled' = errorsHandled(deleteFiles(files, filter(data, pred)).failed)
    /\ deleted' = deleted \cup Range(filter(data, pred))
    /\ ret' = [kind |-> "DeleteWithFilter", items |-> filter(data, pred)]
    /\ UNCHANGED <<optsVars, ctxDone, startDone, watcher, orphans, res,
                   waitOrder, counters, persistErrorHandler, lock, notify, pc,
                   pushedSeq, removed, now, sweepDue, op>>

KeyDeleteWithFilterCall == \E pred \in Predicates : KeyDeleteWithFilter(pred)

KeyNext ==
    \/ KeyPushAny
    \/ \E c \in ListCallers : KeyShift(c)
    \/ KeyDeleteWithFilterCall

\* the v2 list with persistence, with and without an error handler
KeyInit == StartWith({"broadcast"}, {FALSE}, BOOLEAN) /\ persistChanges

KeySpec == KeyInit /\ [][KeyNext]_vars

\* ------------------------------------------------- subscriber-channel list
\* The revision with nextAddedSubscribers. Its state is kept in the variables
\* of the other revisions:
\*   notify      nextAddedSubscribers: the callers whose channel is registered
\*   ctxDone[c]  the time.After(timeout) channel of c's call is ready
\*   watcher[c]  "started": Append's goroutine stands at *subscriber <- true
\*               with the channel c is going to receive from
\*   orphans     such goroutines whose channel nobody receives from any more
\* Every critical section of this revision is one step, so lock stays 0.
subUnused == <<impl, lessFunc, persistChanges, files, lock, startDone,
               waitOrder, counters, listExt>>

\* the caller invokes GetNextWithTimeout(timeout)
GetNextWithTimeoutCall(c) ==
    /\ pc[c] = "idle"
    /\ pc' = [pc EXCEPT ![c] = "entry"]
    /\ ctxDone' = [ctxDone EXCEPT ![c] = FALSE]
    /\ res' = [res EXCEPT ![c] = NoResult]
    /\ UNCHANGED <<subUnused, data, notify, watcher, orphans, pushedSeq, removed>>

\* GetNextWithTimeout, lines 322-331: Lock(); with items Unlock() and on to
\* l.Shift(), else the new channel is registered before Unlock()
GetNextWithTimeoutEntry(c) ==
    /\ pc[c] = "entry"
    /\ lock = 0
    /\ IF Len(data) > 0
       THEN pc' = [pc EXCEPT ![c] = "shift"] /\ UNCHANGED notify
       ELSE pc' = [pc EXCEPT ![c] = "select"] /\ notify' = Append(notify, c)
    /\ UNCHANGED <<subUnused, data, ctxDone, watcher, orphans, res, pushedSeq,
                   removed>>

\* GetNextWithTimeout, line 326: return l.Shift()
GetNextWithTimeoutShift(c) ==
    /\ pc[c] = "shift"
    /\ lock = 0
    /\ pc' = [pc EXCEPT ![c] = "idle"]
    /\ IF Len(data) < 1
       THEN /\ res' = [res EXCEPT ![c] = ErrEmptyList]
            /\ UNCHANGED <<data, removed>>
       ELSE /\ res' = [res EXCEPT ![c] = data[1]]
            /\ data' = Tail(data)
            /\ removed' = Append(removed, data[1])
    /\ UNCHANGED <<subUnused, notify, ctxDone, watcher, orphans, pushedSeq>>

\* the timer of time.After(timeout) fires
TimeAfter(c) ==
    /\ pc[c] = "select"
    /\ ~ctxDone[c]
    /\ ctxDone' = [ctxDone EXCEPT ![c] = TRUE]
    /\ UNCHANGED <<subUnused, data, notify, pc, watcher, orphans, res, pushedSeq,
                   removed>>

\* case <-*getNextChannel (line 334), and <-getNextChannel in GetNext (line
\* 316): the send of Append's goroutine is received; on to l.GetNext()
Receive(c) ==
    /\ pc[c] \in {"select", "recv"}
    /\ watcher[c] = "started"
    /\ watcher' = [watcher EXCEPT ![c] = "none"]
    /\ pc' = [pc EXCEPT ![c] = "getnext"]
    /\ UNCHANGED <<subUnused, data, notify, ctxDone, orphans, res, pushedSeq,
                   removed>>

\* case <-time.After(timeout) (line 336): select takes any case that is ready
SelectTimeout(c) ==
    /\ pc[c] = "select"
    /\ ctxDone[c]
    /\ pc' = [pc EXCEPT ![c] = "unsub"]
    /\ UNCHANGED <<subUnused, data, notify, ctxDone, watcher, orphans, res,
                   pushedSeq, removed>>

\* lines 338-344: the list of the subscribers without the caller's channel
unsubscribe(n, c) == SelectSeq(n, LAMBDA x : x # c)

\* lines 337-346: Lock(), the channel is taken out, Unlock(), EMPTY_LIST;
\* a goroutine that stands at the send on this channel stays there
Unsubscribe(c) ==
    /\ pc[c] = "unsub"
    /\ lock = 0
    /\ notify' = unsubscribe(notify, c)
    /\ pc' = [pc EXCEPT ![c] = "idle"]
    /\ res' = [res EXCEPT ![c] = ErrEmptyList]
    /\ orphans' = IF watcher[c] = "started" THEN orphans + 1 ELSE orphans
    /\ watcher' = [watcher EXCEPT ![c] = "none"]
    /\ UNCHANGED <<subUnused, data, ctxDone, pushedSeq, removed>>

\* GetNext, lines 307-319: Lock(); with items shiftWithoutLock(), else a
\* new channel is registered and the caller waits for it without a timeout
SubGetNext(c) ==
    /\ pc[c] = "getnext"
    /\ lock = 0
    /\ IF Len(data) > 0
       THEN /\ pc' = [pc EXCEPT ![c] = "idle"]
            /\ res' = [res EXCEPT ![c] = data[1]]
            /\ data' = Tail(data)
            /\ removed' = Append(removed, data[1])
            /\ UNCHANGED notify
       ELSE /\ pc' = [pc EXCEPT ![c] = "recv"]
            /\ notify' = Append(notify, c)
            /\ UNCHANGED <<data, res, removed>>
    /\ UNCHANGED <<subUnused, ctxDone, watcher, orphans, pushedSeq>>

\* Append, lines 270-283: the item is appended and the oldest subscriber is
\* taken from the list; a goroutine sends on its channel
ListAppend(item) ==
    /\ lock = 0
    /\ data' = Append(data, item)
    /\ pushedSeq' = Append(pushedSeq, item)
    /\ IF Len(notify) > 0
       THEN /\ notify' = Tail(notify)
            /\ watcher' = [watcher EXCEPT ![Head(notify)] = "started"]
       ELSE UNCHANGED <<notify, watcher>>
    /\ UNCHANGED <<subUnused, pc, ctxDone, orphans, res, removed>>

\* the items are numbered in the order they are appended
AppendAny ==
    /\ Len(pushedSeq) < MaxItems
    /\ ListAppend(Len(pushedSeq) + 1)

SubNext ==
    \/ AppendAny
    \/ \E c \in Consumers : GetNextWithTimeoutCall(c)
    \/ \E c \in Consumers : GetNextWithTimeoutEntry(c)
    \/ \E c \in Consumers : GetNextWithTimeoutShift(c)
    \/ \E c \in Consumers : TimeAfter(c)
    \/ \E c \in Consumers : Receive(c)
    \/ \E c \in Consumers : SelectTimeout(c)
    \/ \E c \in Consumers : Unsubscribe(c)
    \/ \E c \in Consumers : SubGetNext(c)

SubInit == Start({"subscriber"}, {FALSE}) /\ ~lessFunc /\ ~persistChanges

\* goroutines that can run do run, a timer fires, a select with a ready case
\* takes one of the ready cases; calls are up to the callers
SubFairness ==
    /\ \A c \in Consumers : WF_vars(GetNextWithTimeoutEntry(c))
    /\ \A c \in Consumers : WF_vars(GetNextWithTimeoutShift(c))
    /\ \A c \in Consumers : WF_vars(TimeAfter(c))
    /\ \A c \in Consumers : WF_vars(Receive(c) \/ SelectTimeout(c))
    /\ \A c \in Consumers : WF_vars(Unsubscribe(c))
    /\ \A c \in Consumers : WF_vars(SubGetNext(c))

SubSpec == SubInit /\ [][SubNext]_vars /\ SubFairness

\* ------------------------------------------------- producers that go on
\* once every pushed item has been taken the histories start again, so that
\* the producers never run out of items
ForgetHistory ==
    /\ data = <<>>
    /\ pushedSeq # <<>>
    /\ Len(removed) = Len(pushedSeq)
    /\ pushedSeq' = <<>>
    /\ removed' = <<>>
    /\ UNCHANGED <<impl, lessFunc, persistChanges, data, files, lock, notify, pc,
                   ctxDone, startDone, watcher, orphans, res>>
    /\ UNCHANGED <<waitOrder, counters, listExt>>

NextForever == Next \/ ForgetHistory

ForeverSpec == LiveInit /\ [][NextForever]_vars /\ Fairness /\ WF_vars(ForgetHistory)

\* ------------------------------------------------------------------ claims
Last(s) == s[Len(s)]
IsPrefix(s, t) == Len(s) <= Len(t) /\ \A i \in 1..Len(s) : s[i] = t[i]
NoDuplicates(s) == \A i, j \in 1..Len(s) : i # j => s[i] # s[j]
Suspended(c) == pc[c] \in {"suspended", "woken"}
\* consumer c takes a step of its GetNext call (being woken is not its step)
Steps(c) == InCall(c) /\ pc[c] # "suspended" /\ pc'[c] # pc[c]
\* consumer c returns from GetNext in this step
Returns(c) == InCall(c) /\ pc'[c] = "idle"

\* C1: every pushed item is returned exactly once: the items taken so far and
\* the items held are together exactly the items pushed, none twice; and with
\* consumers looping on GetNext with live contexts every held item is
\* eventually taken.
C1_Safe ==
    /\ NoDuplicates(removed \o data)
    /\ Range(removed \o data) = Range(pushedSeq)
    /\ Len(removed \o data) = Len(pushedSeq)
C1_Live ==
    \A x \in Items :
        (x \in Range(data)) ~> (x \notin Range(data) \/ \E c \in Consumers : ctxDone[c])
C1_ExactlyOnce == []C1_Safe /\ C1_Live
C1_Witness ==
    /\ Len(removed) >= 2
    /\ data = <<>>
    /\ \E c, x \in Consumers :
        /\ c # x
        /\ pc[c] = "suspended" /\ ~ctxDone[c]
        /\ pc[x] = "idle" /\ res[x] \in Items /\ ~ctxDone[x]

\* C2: (v2, Broadcast) once the context of a running GetNext call is done, the
\* call eventually returns the context's error, with no Push needed.
C2_CancelReturns ==
    \A c \in Consumers :
        (impl = "broadcast" /\ InCall(c) /\ ctxDone[c])
            ~> (pc[c] = "idle" /\ res[c] = CtxErr)

\* C3: (Signal-based) when every caller is suspended on the empty list and the
\* context of one of them is done, the others' being live, that call eventually
\* returns ErrEmptyList, with no Push needed: the Signal of its watcher is not
\* absorbed by another waiter.
C3_CancelNotAbsorbed ==
    \A c \in Consumers :
        (/\ impl = "signal"
         /\ data = <<>>
         /\ \A x \in Consumers : pc[x] = "suspended"
         /\ ctxDone[c] /\ watcher[c] = "started"
         /\ \A x \in Consumers \ {c} : ~ctxDone[x])
            ~> (pc[c] = "idle" /\ res[c] = ErrEmptyList)

\* C4: (v2) when every caller is suspended with a live context and the list
\* holds as many items as there are callers, every caller eventually returns
\* an item, unless the items are gone or a context is done.
C4_AllWaitersServed ==
    \A c \in Consumers :
        (/\ impl = "broadcast"
         /\ \A x \in Consumers : Suspended(x) /\ ~ctxDone[x]
         /\ Len(data) = NumConsumers)
            ~> (res[c] \in Items \/ data = <<>> \/ \E x \in Consumers : ctxDone[x])

\* C5: with no comparator the items come out in push order: the sequence of
\* items taken by Shift and GetNext is a prefix of the sequence of pushed items.
C5_Fifo == ~lessFunc => IsPrefix(removed, pushedSeq)
C5_Witness ==
    /\ ~lessFunc
    /\ Len(removed) >= 2
    /\ data # <<>>
    /\ \E c \in Consumers : pc[c] = "idle" /\ res[c] = Last(removed)

\* C6: with a comparator, an item taken by Shift or GetNext is first in the
\* order among the items held at that moment; the three items with priorities
\* 500, 200, 100 are held in that order however they were pushed.
C6_Step ==
    (lessFunc /\ removed' # removed) =>
        /\ removed' = Append(removed, Head(data))
        /\ \A x \in Range(data) : ~less(x, Head(data))
C6_Example ==
    (lessFunc /\ Range(data) = {1, 2, 3} /\ Len(data) = 3) => data = <<1, 2, 3>>
C6_FirstInOrder == [][C6_Step]_vars /\ []C6_Example
C6_Witness ==
    /\ lessFunc
    /\ pushedSeq = <<3, 2, 1>>
    /\ removed = <<1, 2>>
    /\ data = <<3>>

\* C7: a caller with a live context that waits while an item is pushed to the
\* empty list, with no other consumer ever at work and no other Push, eventually
\* returns that item and leaves the list empty.
C7_Escape(c, i) ==
    \/ ctxDone[c]
    \/ \E x \in Consumers \ {c} : InCall(x) \/ res[x] # NoResult
    \/ pushedSeq = <<>>
    \/ Last(pushedSeq) # i
C7_PushedItemReturned ==
    \A c \in Consumers : \A i \in Items :
        (Suspended(c) /\ ~ctxDone[c] /\ data = <<i>> /\ pushedSeq # <<>> /\ Last(pushedSeq) = i)
            ~> ((pc[c] = "idle" /\ res[c] = i /\ data = <<>>) \/ C7_Escape(c, i))
C7_Witness ==
    \E c \in Consumers :
        /\ pc[c] = "woken" /\ ~ctxDone[c]
        /\ data = <<2>> /\ pushedSeq = <<1, 2>> /\ removed = <<1>>
        /\ \A x \in Consumers \ {c} : pc[x] = "idle" /\ res[x] = NoResult

\* C8: GetNext returns either the item it removed from the front of the list
\* or an error while its own context is done (in v2 never ErrEmptyList); a
\* caller that holds the lock with a live context on an empty list waits again.
C8_Step ==
    \A c \in Consumers :
        /\ Returns(c) =>
            \/ /\ data # <<>>
               /\ res'[c] = Head(data)
               /\ data' = Tail(data)
            \/ /\ res'[c] \in {CtxErr, ErrEmptyList}
               /\ ctxDone[c]
               /\ impl = "broadcast" => res'[c] = CtxErr
        /\ (pc[c] = "check" /\ ~ctxDone[c] /\ data = <<>> /\ pc'[c] # pc[c])
                => pc'[c] = "wait"
C8_TwoWaysToReturn == [][C8_Step]_vars
C8_Witness ==
    \E c, x \in Consumers :
        /\ pc[c] = "idle" /\ res[c] = CtxErr /\ ctxDone[c] /\ ~startDone[c]
        /\ pc[x] = "wait" /\ ~ctxDone[x]
        /\ data = <<>> /\ removed # <<>>

\* C9: a GetNext call that returns an error has removed nothing: every step of
\* a call except the return of an item leaves the items and the files alone.
C9_Step ==
    \A c \in Consumers :
        (Steps(c) /\ ~(pc'[c] = "idle" /\ res'[c] \in Items))
            => UNCHANGED <<data, files, removed>>
C9_ErrorRemovesNothing == [][C9_Step]_vars
C9_Witness ==
    \E c \in Consumers :
        /\ pc[c] = "idle" /\ res[c] \in {CtxErr, ErrEmptyList}
        /\ persistChanges /\ data # <<>> /\ files = Range(data)

\* C10: GetNext called with a context that is already done never suspends and
\* returns an error, leaving the list as it is, also when the list holds items.
C10_Step ==
    \A c \in Consumers :
        (Returns(c) /\ startDone[c]) =>
            /\ res'[c] \in {CtxErr, ErrEmptyList}
            /\ UNCHANGED <<data, files>>
C10_NeverSuspends ==
    \A c \in Consumers : startDone[c] => pc[c] \notin {"wait", "suspended", "woken"}
C10_DoneContext == []C10_NeverSuspends /\ [][C10_Step]_vars
C10_Witness ==
    \E c \in Consumers :
        /\ pc[c] = "idle" /\ startDone[c] /\ res[c] \in {CtxErr, ErrEmptyList}
        /\ data # <<>>

\* C11: callers continue in the order in which they were suspended: a call
\* that has been suspended does not return an item while a call that was
\* suspended before it, and whose context is live, has not returned.
Before(a, b) ==
    \E i, j \in 1..Len(waitOrder) : i < j /\ waitOrder[i] = a /\ waitOrder[j] = b
C11_Step ==
    \A a, b \in Consumers :
        ~(Before(a, b) /\ ~ctxDone[a] /\ Returns(b) /\ res'[b] \in Items)
C11_WaiterOrder == [][C11_Step]_vars

\* C12: if Push calls keep happening, a call suspended with a live context
\* eventually returns an item, whatever the other consumers do.
C12_NoStarvation ==
    ([]<><<PushAny>>_vars) =>
        \A c \in Consumers :
            (pc[c] = "suspended" /\ ~ctxDone[c])
                ~> ((pc[c] = "idle" /\ res[c] \in Items) \/ ctxDone[c])

\* C13: (debug counters) no counter is ever negative; when every GetNext call
\* has returned the wait counter is zero, and if no call is made any more the
\* signal-routine counter is eventually zero for good.
AllReturned == \A c \in Consumers : pc[c] = "idle"
C13_Counters ==
    /\ runningWaitRoutines >= 0
    /\ runningSignalRoutines >= 0
    /\ AllReturned => runningWaitRoutines = 0
C13_NoLeak ==
    /\ []C13_Counters
    /\ (<>[]AllReturned) => (<>[](runningSignalRoutines = 0))
C13_Witness ==
    /\ impl = "signal"
    /\ AllReturned
    /\ orphans = 0
    /\ runningWaitRoutines = 0 /\ runningSignalRoutines = 0
    /\ \E c, x \in Consumers :
        /\ res[c] = ErrEmptyList /\ ctxDone[c] /\ ~startDone[c]
        /\ res[x] \in Items

\* C14: every operation takes effect in one step between its Lock() and its
\* Unlock(): seen through the state that was there when the lock was taken,
\* each step of the list either changes nothing and returns nothing, or is one
\* whole Push, DeleteWithFilter, Peek, Length, GetWithFilter or shift on that
\* state, with the result the operation has when it runs alone.
absData == IF op.kind = "Push" THEN op.before ELSE data
absFiles == IF op.kind \in {"Push", "DeleteWithFilter"} THEN op.filesBefore ELSE files
C14_Internal ==
    /\ UNCHANGED <<absData, absFiles>>
    /\ ret'.kind = ret.kind
    /\ ret' = ret
    /\ \A c \in Consumers : res'[c] \in {res[c], NoResult}
C14_Push ==
    /\ op.kind = "Push" /\ op'.kind = "none"
    /\ absData' \in pushData(absData, op.items)
    /\ absFiles' = IF persistChanges THEN absFiles \cup Range(op.items) ELSE absFiles
    /\ UNCHANGED <<ret, res>>
C14_Delete ==
    /\ op.kind = "DeleteWithFilter" /\ op'.kind = "none"
    /\ \E pred \in Predicates :
        /\ absData' = filterNot(absData, pred)
        /\ absFiles' = IF persistChanges THEN absFiles \ Range(filter(absData, pred))
                       ELSE absFiles
        /\ \/ op.sweep /\ UNCHANGED ret
           \/ ret' = [kind |-> "DeleteWithFilter", items |-> filter(absData, pred)]
    /\ UNCHANGED res
C14_Read ==
    /\ UNCHANGED <<absData, absFiles, res>>
    /\ \/ ret' = [kind |-> "Peek",
                  item |-> IF absData = <<>> THEN ErrEmptyList ELSE absData[1]]
       \/ ret' = [kind |-> "Length", n |-> Len(absData)]
       \/ \E pred \in Predicates :
             ret' = [kind |-> "GetWithFilter", items |-> filter(absData, pred)]
C14_Shift ==
    /\ UNCHANGED ret
    /\ \E c \in Consumers :
        /\ \A x \in Consumers \ {c} : res'[x] = res[x]
        /\ IF absData = <<>>
           THEN res'[c] = ErrEmptyList /\ UNCHANGED <<absData, absFiles>>
           ELSE /\ res'[c] = absData[1]
                /\ absData' = Tail(absData)
                /\ absFiles' = IF persistChanges THEN absFiles \ {absData[1]}
                               ELSE absFiles
C14_Step ==
    C14_Internal \/ C14_Push \/ C14_Delete \/ C14_Read \/ C14_Shift \/ NewConcurrentList
C14_Linearizable == [][C14_Step]_vars
C14_Witness ==
    /\ op.kind = "Push"
    /\ lessFunc /\ ~IsSorted(data)
    /\ Len(op.items) >= 2
    /\ ret.kind = "GetWithFilter"
    /\ pc[1] = "suspended"

\* C15: (persistence) whenever the lock is free the files are exactly the
\* items held; without persistence there is no file.
C15_FilesAreItems ==
    /\ (persistChanges /\ lock = 0) =>
            (files = Range(data) /\ Cardinality(files) = Len(data))
    /\ ~persistChanges => files = {}
C15_Witness ==
    /\ persistChanges /\ lock = 0
    /\ ttlEnabled /\ now = MaxTime
    /\ Len(pushedSeq) = MaxItems
    /\ removed # <<>>
    /\ deleted # {}
    /\ ret.kind = "DeleteWithFilter"
    /\ data # <<>>

\* C16: a list constructed on the directory of a persistent list holds exactly
\* the items pushed and not removed since, each once, in the configured order:
\* sorted by the comparator, or in push order when there is none.
Held == SelectSeq(pushedSeq, LAMBDA x : x \notin Range(removed) \cup deleted)
C16_Step ==
    NewConcurrentList =>
        /\ Len(data') = Len(Held)
        /\ Range(data') = Range(Held)
        /\ IF lessFunc THEN IsSorted(data') ELSE data' = Held
C16_RoundTrip == [][C16_Step]_vars

\* C17: (v2) a list constructed with persistence and a comparator holds the
\* loaded items in comparator order, whatever the order of the file names.
C17_Step ==
    (NewConcurrentList /\ lessFunc) =>
        /\ IsSorted(data')
        /\ Range(data') = files
        /\ Len(data') = Cardinality(files)
C18_Sorted == (lessFunc /\ lock = 0) => IsSorted(data)
C18_Witness ==
    /\ lessFunc /\ lock = 0
    /\ Len(data) >= 2
    /\ ~IsSorted(pushedSeq)
    /\ deleted # {}

\* C19: (TTL) when a sweep is over no expired item is held and none has a
\* file; and the clock reaches the next interval only after the sweep, so no
\* item stays expired for a whole interval.
C19_SweepStep ==
    (op.kind = "DeleteWithFilter" /\ op.sweep /\ op'.kind = "none") =>
        \A x \in Items : Expired(x) => (x \notin Range(data') /\ x \notin files')
C19_TickStep ==
    (now' = now + 1) => \A x \in Range(data) : ~Expired(x)
C19_Eviction == [][C19_SweepStep /\ C19_TickStep]_vars
C19_Witness ==
    /\ ttlEnabled /\ persistChanges
    /\ ~sweepDue /\ lock = 0
    /\ \E x \in deleted : Expired(x) /\ x \notin files /\ x \notin Range(data)
    /\ data # <<>>
    /\ files = Range(data)

\* C20: Shift is never held up except by the lock; on an empty list it returns
\* ErrEmptyList and changes nothing, otherwise it returns the item at index 0
\* and leaves the items behind it as they were.
ShiftReturns(c) ==
    pc[c] = "idle" /\ pc'[c] = "idle" /\ res'[c] # res[c]
C20_Step ==
    \A c \in Consumers :
        ShiftReturns(c) =>
            IF data = <<>>
            THEN res'[c] = ErrEmptyList /\ UNCHANGED <<data, files, removed>>
            ELSE /\ res'[c] = data[1]
                 /\ data' = SubSeq(data, 2, Len(data))
                 /\ files' = IF persistChanges THEN files \ {data[1]} ELSE files
C20_NeverBlocks ==
    \A c \in Consumers : (pc[c] = "idle" /\ lock = 0) => ENABLED Shift(c)
C20_Shift == []C20_NeverBlocks /\ [][C20_Step]_vars
C20_Witness ==
    \E c \in Consumers :
        /\ impl = "broadcast" /\ pc[c] = "idle" /\ ~ctxDone[c]
        /\ res[c] = ErrEmptyList
        /\ data = <<>>
        /\ Len(removed) >= 2

\* C21: Peek returns the item at index 0, or ErrEmptyList on an empty list,
\* and changes neither the items nor the files nor the waiters; a Shift that
\* comes next returns what Peek returned.
PeekReturns == ret'.kind = "Peek" /\ (ret.kind # "Peek" \/ ret' # ret)
ShiftResult == IF Len(data) < 1 THEN ErrEmptyList ELSE shift(data, files).item
C21_Step ==
    PeekReturns =>
        /\ ret'.item = IF data = <<>> THEN ErrEmptyList ELSE data[1]
        /\ UNCHANGED <<data, files, notify, pc, lock>>
        /\ ShiftResult' = ret'.item
        /\ \A c \in Consumers : pc[c] = "idle" => ENABLED Shift(c)
C21_Peek == [][C21_Step]_vars
C21_Witness ==
    /\ ret.kind = "Peek"
    /\ ret.item \in Items
    /\ pc[1] = "idle" /\ res[1] = ret.item
    /\ removed # <<>> /\ Last(removed) = ret.item
    /\ Len(data) >= 1

\* C22: GetWithFilter returns the held items the predicate holds for, each
\* once and in the order they are held, and changes nothing.
IsSubSeq(s, t) ==
    \A i, j \in 1..Len(s) : i < j =>
        \E k, l \in 1..Len(t) : k < l /\ t[k] = s[i] /\ t[l] = s[j]
C22_Step ==
    \A pred \in Predicates :
        GetWithFilter(pred) =>
            /\ Range(ret'.items) = Range(data) \cap pred
            /\ Len(ret'.items) = Cardinality(Range(data) \cap pred)
            /\ IsSubSeq(ret'.items, data)
            /\ UNCHANGED <<data, files, notify, pc, lock>>
C22_GetWithFilter == [][C22_Step]_vars
C22_Witness ==
    /\ ret.kind = "GetWithFilter"
    /\ Len(data) = MaxItems
    /\ Len(ret.items) = 2
    /\ \E i \in 1..(Len(data) - 2) : ret.items = <<data[i], data[i + 2]>>

\* C23: DeleteWithFilter splits the items by the predicate: the ones it holds
\* for are returned, the others are kept, both in the order they had; nothing
\* is lost or doubled, so the length drops by the number of returned items.
C23_LockStep ==
    \A pred \in Predicates :
        DeleteLock(pred, FALSE) =>
            /\ Range(op'.filtered) = Range(data) \cap pred
            /\ Range(op'.nonFiltered) = Range(data) \ pred
            /\ IsSubSeq(op'.filtered, data)
            /\ IsSubSeq(op'.nonFiltered, data)
            /\ Len(op'.filtered) + Len(op'.nonFiltered) = Len(data)
            /\ UNCHANGED data
C23_UnlockStep ==
    (op.kind = "DeleteWithFilter" /\ op'.kind = "none" /\ ~op.sweep) =>
        /\ ret' = [kind |-> "DeleteWithFilter", items |-> op.filtered]
        /\ data' = op.nonFiltered
        /\ Len(data') = Len(data) - Len(ret'.items)
C23_InStep ==
    (op.kind = "DeleteWithFilter" /\ op'.kind = "DeleteWithFilter") =>
        /\ UNCHANGED data
        /\ op'.filtered = op.filtered /\ op'.nonFiltered = op.nonFiltered
C23_Step == C23_LockStep /\ C23_UnlockStep /\ C23_InStep
C23_Partition == [][C23_Step]_vars
C23_Witness ==
    /\ ret.kind = "DeleteWithFilter"
    /\ Len(ret.items) = 2
    /\ Len(data) = 1
    /\ lessFunc /\ persistChanges
    /\ pushedSeq = <<2, 1, 3>>
    /\ ret.items = <<1, 3>>

\* C24: (subscriber-channel list) a GetNextWithTimeout call returns
\* EMPTY_LIST from its wait only after its timer has fired, and does return
\* it when nothing is appended while it waits; a call that waits when an item
\* is appended, with its timer not fired yet, the item still held and no
\* other caller about, returns an item.
C24_AfterTimer ==
    \A c \in Consumers :
        (pc[c] \in {"select", "unsub"} /\ pc'[c] = "idle") =>
            (res'[c] = ErrEmptyList /\ ctxDone[c])
C24_StaysEmpty ==
    \A c \in Consumers : \A n \in 0..MaxItems :
        (pc[c] = "select" /\ c \in Range(notify) /\ Len(pushedSeq) = n) ~>
            ((pc[c] = "idle" /\ res[c] = ErrEmptyList) \/ Len(pushedSeq) > n)
C24_Appended ==
    \A c \in Consumers :
        (pc[c] = "select" /\ watcher[c] = "started" /\ ~ctxDone[c] /\ data # <<>>) ~>
            ((pc[c] = "idle" /\ res[c] \in Items) \/ \E x \in Consumers \ {c} : pc[x] # "idle")
C24_Timeout == [][C24_AfterTimer]_vars /\ C24_StaysEmpty /\ C24_Appended

\* C25: (subscriber-channel list) only running calls are registered, and a
\* call that has taken its timeout does not get the notification of an
\* Append: while a caller that is still waiting is registered, the Append
\* notifies a caller that is still waiting.
Waiting(c) == pc[c] \in {"select", "recv"}
C25_Registered ==
    /\ NoDuplicates(notify)
    /\ \A c \in Range(notify) : pc[c] \in {"select", "recv", "unsub"}
C25_AppendStep ==
    (Len(pushedSeq') > Len(pushedSeq) /\ \E b \in Range(notify) : Waiting(b)) =>
        /\ Waiting(Head(notify))
        /\ watcher'[Head(notify)] = "started"
C25_NotAbsorbed == []C25_Registered /\ [][C25_AppendStep]_vars

\* C26: the watcher of a GetNext call does not notify the condition variable
\* after the call has returned: no Signal or Broadcast comes from a watcher
\* whose call is over.
C26_Step == ~OrphanRun
C26_WatcherEndsWithCall == [][C26_Step]_vars

\* C27: the lock is held only by a goroutine that is inside a critical
\* section and can take its next step there, never by a caller that is
\* suspended, woken or back from its call; so every critical section comes to
\* its Unlock(), and with the lock free every operation can begin.
OpStep == PushSort \/ PushPersist \/ PushSignal \/ DeleteFile \/ DeleteUnlock
C27_LockHeld ==
    /\ (lock = OpHolder) <=> (op.kind # "none")
    /\ \A c \in Consumers :
        /\ lock = c => (pc[c] \in {"check", "wait"}
                         /\ ENABLED (GetNextCheck(c) \/ GetNextWait(c)))
        /\ pc[c] \in {"idle", "locking", "suspended", "woken"} => lock # c
    /\ lock = OpHolder => ENABLED OpStep
    /\ lock = 0 =>
        /\ ENABLED Peek /\ ENABLED Length /\ ENABLED GetWithFilterCall
        /\ ENABLED DeleteWithFilterCall
        /\ FreshArgs # {} => ENABLED PushCall
        /\ \A c \in ListCallers : pc[c] = "idle" => ENABLED Shift(c)
PushReturns == pushedSeq' # pushedSeq
C28_Step ==
    PushReturns =>
        /\ IF notify = <<>>
           THEN UNCHANGED <<notify, pc>>
           ELSE /\ notify' = Tail(notify)
                /\ pc' = [pc EXCEPT ![Head(notify)] = "woken"]
        /\ Len(data') = Len(data) + (Len(pushedSeq') - Len(pushedSeq))
        /\ data = <<>> =>
                \E i \in (Len(pushedSeq) + 1)..Len(pushedSeq') :
                    ShiftResult' = pushedSeq'[i]
C28_OneSignal == [][C28_Step]_vars
C28_Witness ==
    \E a, b \in Consumers :
        /\ pc[a] = "woken" /\ pc[b] = "suspended"
        /\ ~ctxDone[a] /\ ~ctxDone[b]
        /\ orphans = 0
        /\ Len(data) = 2 /\ Len(pushedSeq) = 2
        /\ removed = <<>>

\* C29: an item leaves the list once: no item is taken by shift() twice, none
\* is taken by shift() and also by DeleteWithFilter or the sweep, and an item
\* that was taken is not held any more; a DeleteWithFilter or sweep takes only
\* items nobody has taken before, and every file is removed by one step, while
\* it exists.
C29_Once ==
    /\ NoDuplicates(removed)
    /\ Range(removed) \cap deleted = {}
    /\ op.kind = "none" =>
        /\ NoDuplicates(data)
        /\ Range(data) \cap (Range(removed) \cup deleted) = {}
        /\ Range(data) \cup Range(removed) \cup deleted = Range(pushedSeq)
C29_Step ==
    /\ (op.kind = "DeleteWithFilter" /\ op'.kind = "none") =>
        /\ Range(op.filtered) \cap (Range(removed) \cup deleted) = {}
        /\ deleted' = deleted \cup Range(op.filtered)
        /\ Range(data') \cap Range(op.filtered) = {}
    /\ removed' # removed =>
        /\ removed' = Append(removed, data[1])
        /\ data[1] \notin deleted
        /\ persistChanges => (data[1] \in files /\ data[1] \notin files')
    /\ (files' # files /\ files' \subseteq files) =>
        Cardinality(files \ files') = 1
    /\ (op.kind = "DeleteWithFilter" /\ op'.kind = "DeleteWithFilter"
            /\ op'.todo # op.todo) =>
        (Head(op.todo) \in files /\ files' = files \ {Head(op.todo)})
C29_RemovedOnce == []C29_Once /\ [][C29_Step]_vars
C29_Witness ==
    /\ ttlEnabled /\ persistChanges
    /\ op.kind = "none" /\ lock = 0
    /\ removed # <<>>
    /\ ret.kind = "DeleteWithFilter" /\ ret.items # <<>>
    /\ \E x \in deleted : Expired(x) /\ x \notin Range(ret.items)
    /\ files = {}

\* C30: the error handler is called once for every file operation that
\* fails, and never when none is set; a failing write changes nothing in
\* memory and Push goes on: when it returns all its items are held, in
\* comparator order, and it has signalled; a failing removal of a file still
\* takes the item out of the list and hands it to the caller.
C30_Handler == handled = IF persistErrorHandler THEN ioFailed ELSE 0
C30_GoesOn ==
    /\ op.kind = "Push" =>
        ENABLED (PushSort \/ PushPersist \/ PushPersistFails \/ PushSignal)
    /\ op.kind = "DeleteWithFilter" =>
        ENABLED (IoDeleteFile \/ DeleteFileFails \/ DeleteUnlock)
C30_Step ==
    /\ (ioFailed' > ioFailed /\ op.kind # "none") =>
        (data' = data /\ op'.kind = op.kind /\ lock' = lock)
    /\ (op.kind = "Push" /\ op'.kind = "none") =>
        /\ Range(op.items) \subseteq Range(data')
        /\ Len(data') = Len(op.before) + Len(op.items)
        /\ lessFunc => IsSorted(data')
        /\ notify' = Signal(notify).rest
        /\ pc' = Wake(Signal(notify).woken)
        /\ lock' = 0
    /\ (op.kind = "DeleteWithFilter" /\ op'.kind = "none") =>
        /\ ret' = [kind |-> "DeleteWithFilter", items |-> op.filtered]
        /\ data' = op.nonFiltered
    /\ (ioFailed' > ioFailed /\ op.kind = "none") =>
        /\ data' = Tail(data)
        /\ removed' = Append(removed, data[1])
        /\ \E c \in Consumers : pc'[c] = "idle" /\ res'[c] = data[1]
        /\ lock' = 0
C30_ErrorsHandled == []C30_Handler /\ []C30_GoesOn /\ [][C30_Step]_vars
C30_Witness ==
    /\ persistErrorHandler /\ handled = MaxFailures
    /\ op.kind = "none" /\ lock = 0
    /\ \E y \in Range(data) : y \notin files
    /\ \E x \in Range(removed) : x \in files
    /\ lessFunc /\ ~IsSorted(pushedSeq)

\* C31: (persistence) the file of a pushed item is written before Push signals
\* and unlocks: an item without a file is one of those the running Push has
\* still to write, under the lock; the step that signals and unlocks finds
\* the file of each of its items; the item a consumer gets and the item whose
\* file a removal goes for have their file. (The items a DeleteWithFilter is
\* about to take out have lost their file already.)
C31_Removing == IF op.kind = "DeleteWithFilter" THEN Range(op.filtered) ELSE {}
C31_Unwritten == Range(data) \ (files \cup C31_Removing)
C31_UnderLock ==
    (persistChanges /\ C31_Unwritten # {}) =>
        /\ op.kind = "Push"
        /\ lock = OpHolder
        /\ C31_Unwritten \subseteq Range(op.todo)
C31_Step ==
    persistChanges =>
        /\ (op.kind = "Push" /\ op'.kind = "none") =>
            /\ Range(op.items) \subseteq files
            /\ lock = OpHolder /\ lock' = 0
            /\ notify' = Signal(notify).rest
        /\ (\E c \in Consumers : pc'[c] = "woken" /\ pc[c] # "woken") =>
            Range(data) \subseteq files
        /\ removed' # removed => data[1] \in files
        /\ (op.kind = "DeleteWithFilter" /\ op'.kind = "DeleteWithFilter"
                /\ op'.todo # op.todo) => Head(op.todo) \in files
C31_WrittenBeforeSignal == []C31_UnderLock /\ [][C31_Step]_vars
C31_Witness ==
    /\ persistChanges
    /\ pc[1] = "woken" /\ lock = 0
    /\ Len(data) >= 2 /\ removed = <<>> /\ deleted = {}
    /\ files = Range(data)

\* C32: a Push of an item whose file name an item already held has does not
\* fail: the file is overwritten with the new item, both items are held, and
\* there are as many files as the items pushed and not yet removed have
\* distinct file names.
keysOf(S) == {persistFileNameFunc(x) : x \in S}
C32_Pushed == SubSeq(pushedSeq', Len(pushedSeq) + 1, Len(pushedSeq'))
C32_PushStep ==
    pushedSeq' # pushedSeq =>
        /\ ioFailed' = ioFailed /\ handled' = handled
        /\ Len(data') = Len(data) + Len(C32_Pushed)
        /\ Range(data') = Range(data) \cup Range(C32_Pushed)
        /\ \A i \in 1..Len(C32_Pushed) :
              (\A j \in (i + 1)..Len(C32_Pushed) :
                    persistFileNameFunc(C32_Pushed[j]) # persistFileNameFunc(C32_Pushed[i]))
                => C32_Pushed[i] \in files'
        /\ \A x \in files :
              x \in files' <=> ~hasFile(Range(C32_Pushed), x)
        /\ Cardinality(files') = Cardinality(keysOf(files'))
C32_Count == Cardinality(files) = Cardinality(keysOf(Range(data)))
C32_Overwrite == []C32_Count /\ [][C32_PushStep]_vars

\* C32 as amended: ... there is one file per file name, each with the name of
\* a held item, and as many files as the held items have distinct file names
\* as long as no removed item shares its name with a held one: the removal of
\* an item removes the file of its name, also the one another held item has
\* been written to.
C32_Records ==
    /\ Cardinality(files) = Cardinality(keysOf(files))
    /\ keysOf(files) \subseteq keysOf(Range(data))
    /\ keysOf(Range(data)) \cap keysOf(Range(removed) \cup deleted) = {} => C32_Count
C32_RemoveStep ==
    /\ removed' # removed =>
            files' = {x \in files : persistFileNameFunc(x) # persistFileNameFunc(data[1])}
    /\ deleted' # deleted =>
            files' = {x \in files : persistFileNameFunc(x) \notin keysOf(deleted' \ deleted)}
C32_OverwriteAmended == []C32_Records /\ [][C32_PushStep /\ C32_RemoveStep]_vars
C32_Witness ==
    /\ ioFailed = 0 /\ removed = <<>> /\ deleted = {}
    /\ \E x, y \in Range(data) :
        /\ x # y /\ persistFileNameFunc(x) = persistFileNameFunc(y)
        /\ y \in files /\ x \notin files
    /\ Len(data) = MaxItems
    /\ Cardinality(files) = 2

\* C33: (Signal-based list) GetNext returns ErrEmptyList only when the list
\* holds no item at the moment of the return.
C33_Step ==
    \A c \in Consumers :
        (impl = "signal" /\ Returns(c) /\ res'[c] = ErrEmptyList) =>
            (data = <<>> /\ data' = <<>>)
C33_EmptyListMeansEmpty == [][C33_Step]_vars

\* C34: (subscriber-channel list) every GetNextWithTimeout call returns: with
\* the timer of its timeout running it does not stay blocked, whatever the
\* other consumers do, also when it was notified of an Append and another
\* consumer took the item first.
C34_Returns ==
    \A c \in Consumers : (pc[c] = "entry") ~> (pc[c] = "idle")

\* C35: (v1) a list constructed with persistence and a comparator holds the
\* loaded items in comparator order when the constructor returns, so that the
\* first Shift, GetNext or Peek gets the comparator-first item.
C35_Step ==
    (NewConcurrentListV1 /\ lessFunc) =>
        /\ IsSorted(data')
        /\ \A x \in Range(data') : ~less(x, data'[1])
C35_ReloadSortedV1 == [][C35_Step]_vars

\* C36: no item is lost or made: each item is as often held or handed out by
\* Shift, GetNext, DeleteWithFilter or the sweep as it was pushed (the items of
\* a Push that has not returned yet count as pushed); a list constructed on the
\* directory holds each loaded item once; Length returns the number of the
\* items held; a sort leaves a permutation of what was there.
count(s, x) == Cardinality({i \in 1..Len(s) : s[i] = x})
C36_Pushing == IF op.kind = "Push" THEN op.items ELSE <<>>
C36_Conserved ==
    \A x \in Items :
        count(data, x) + count(removed, x) + (IF x \in deleted THEN 1 ELSE 0)
            = count(pushedSeq, x) + count(C36_Pushing, x)
C36_Step ==
    /\ (op.kind = "Push" /\ op'.kind = "Push" /\ op.stage = "sort"
            /\ op'.stage # "sort") =>
        data' \in Permutations_(data)
    /\ NewConcurrentList =>
        /\ Len(data') = Cardinality(files)
        /\ Range(data') = files
        /\ data' \in Permutations_(data)
    /\ (ret'.kind = "Length" /\ ret' # ret) =>
        (ret'.n = Len(data) /\ data' = data)
    /\ (op.kind = "DeleteWithFilter" /\ op'.kind = "none") =>
        /\ Len(data') + Len(op.filtered) = Len(data)
        /\ \A x \in Items :
              count(data', x) + count(op.filtered, x) = count(data, x)
C36_Conservation == []C36_Conserved /\ [][C36_Step]_vars
C36_Witness ==
    /\ lessFunc /\ persistChanges /\ ttlEnabled
    /\ op.kind = "none" /\ lock = 0
    /\ ret.kind = "Length" /\ ret.n = 1 /\ Len(data) = 1
    /\ removed # <<>>
    /\ deleted # {}
    /\ ~IsSorted(pushedSeq)

\* C37: (TTL) no item whose age exceeds the TTL is returned by Shift, GetNext
\* or Peek.
C37_Taken == removed' # removed
C37_Peeked == ret'.kind = "Peek" /\ ret' # ret /\ ret'.item \in Items
C37_Step ==
    ttlEnabled =>
        /\ C37_Taken => ~Expired(Last(removed'))
        /\ C37_Peeked => ~Expired(ret'.item)
C37_NoExpiredReturned == [][C37_Step]_vars

\* C37 as amended: Shift, GetNext and Peek return no item that was expired
\* when the last sweep ran: an expired item they return has expired since,
\* with the next sweep still to come; with no sweep to come no held item is
\* expired.
ExpiredAt(i, t) == t - CreatedAt(i) > TTL
C37_SinceSweep(x) == Expired(x) => (sweepDue /\ ~ExpiredAt(x, now - 1))
C37_AmendedStep ==
    ttlEnabled =>
        /\ C37_Taken => C37_SinceSweep(Last(removed'))
        /\ C37_Peeked => C37_SinceSweep(ret'.item)
C37_Swept ==
    (ttlEnabled /\ ~sweepDue) => \A x \in Range(data) : ~Expired(x)
C37_ExpiredSinceSweep == []C37_Swept /\ [][C37_AmendedStep]_vars
C37_Witness ==
    /\ ttlEnabled /\ sweepDue /\ op.kind = "none"
    /\ ret.kind = "Peek" /\ ret.item \in Items
    /\ Expired(ret.item)
    /\ data # <<>> /\ data[1] = ret.item
    /\ deleted # {}

\* C38: (subscriber-channel list) every goroutine Append starts to send on a
\* subscriber's channel gets its send received and ends: none is left at a
\* channel whose caller has returned, and one whose caller still waits is
\* received from.
C38_NoBlockedSender == orphans = 0
C38_Received ==
    \A c \in Consumers : (watcher[c] = "started") ~> (watcher[c] = "none")
C38_SendersEnd == []C38_NoBlockedSender /\ C38_Received

\* C39: a Push of several items is one step for everybody else: it holds the
\* lock from the append to the signal, and while it runs no other operation
\* returns a result or changes the list; without a comparator its items are
\* appended behind the items held, in the order of the arguments, and are
\* still there like that when it unlocks; no later step of the list changes
\* the order of two items held, so the items of two Push calls never mix.
\* (A list constructed anew on the directory is another list, see C16.)
C39_Locked == op.kind = "Push" => lock = OpHolder
C39_Appended == IF op.kind = "none" /\ op'.kind = "Push" THEN op'.items ELSE <<>>
C39_KeepsOrder ==
    (~lessFunc /\ ~NewConcurrentList) => IsSubSeq(data', data \o C39_Appended)
C39_Step ==
    /\ (op.kind = "none" /\ op'.kind = "Push") =>
        /\ data' = data \o op'.items
        /\ lock = 0 /\ lock' = OpHolder
    /\ (op.kind = "Push" /\ op'.kind = "Push") =>
        /\ UNCHANGED <<ret, removed, deleted, pushedSeq, notify>>
        /\ \A c \in Consumers : res'[c] \in {res[c], NoResult}
        /\ Len(data') = Len(data)
        /\ ~lessFunc => data' = data
    /\ (op.kind = "Push" /\ op'.kind = "none") =>
        /\ data' = data
        /\ ~lessFunc => data = op.before \o op.items
        /\ pushedSeq' = pushedSeq \o op.items
        /\ lock' = 0
C39_AtomicPush == []C39_Locked /\ [][C39_Step /\ C39_KeepsOrder]_vars
C39_Witness ==
    /\ ~lessFunc /\ persistChanges
    /\ op.kind = "Push"
    /\ Len(op.items) >= 2 /\ Len(op.todo) = 1
    /\ op.before # <<>>
    /\ pc[1] = "locking"
====
